---- MODULE Spec2Model ----
(***************************************************************************)
(* Model of the Aurora newsletter builder (build.js, class                 *)
(* NewsletterBuilder).                                                     *)
(*                                                                         *)
(* Text is a sequence of lexical tokens: one token is a tag, a newline, an *)
(* indentation unit of four spaces, a placeholder token of the template    *)
(* ({{TITLE}} ...), or one character of author-supplied text.  Two texts   *)
(* are equal exactly when their token sequences are equal, so every        *)
(* literal of the source is cut at the same boundaries everywhere.         *)
(*                                                                         *)
(* A JSON property that may be missing is an optional value: the empty set *)
(* stands for JavaScript's undefined, a singleton set holds the value.     *)
(***************************************************************************)
EXTENDS Integers, Sequences, FiniteSets, TLC

VARIABLES
    isEmail,      \* this.isEmail, set by the constructor
    section,      \* the section handed to the dispatcher
    fragment,     \* optional result of dispatching `section`
    renderer,     \* name of the generate* method the switch called
    sections,     \* the track handed to generateContentSections
    html,         \* optional result of generateContentSections(sections)
    text,         \* the text handed to processMarkdownLinks
    linked,       \* optional result of processMarkdownLinks(text)
    pieces,       \* how `text` was written: plain characters and links
    pc,           \* position of build()
    contentFile,  \* what fs.readFileSync(contentPath) + JSON.parse deliver
    templateFile, \* what fs.readFileSync(this.templatePath) delivers
    data,         \* build(): const data
    template,     \* build(): const template
    scalarResult, \* replacePlaceholders: `result` after the scalar loop
    newsletter,   \* build(): let newsletter
    output        \* the artifacts written by fs.writeFileSync, in order

vars == <<isEmail, section, fragment, renderer, sections, html, text, linked, pieces,
          pc, contentFile, templateFile, data, template, scalarResult,
          newsletter, output>>

dispatchVars == <<section, fragment, renderer>>
renderVars   == <<sections, html>>
linkVars     == <<text, linked, pieces>>
buildVars    == <<pc, contentFile, templateFile, data, template, scalarResult,
                  newsletter, output>>

----------------------------------------------------------------------------
(* Bounds *)

MaxTrack == 3       \* longest track handed to generateContentSections
MaxPieces == 3      \* most pieces of a text handed to processMarkdownLinks
MaxTemplate == 2    \* longest template, in tokens

----------------------------------------------------------------------------
(* JavaScript values *)

Undef == {}
Some(v) == {v}
Get(o) == CHOOSE v \in o : TRUE

\* `${x}`: undefined is converted to the text "undefined"
Interp(o) == IF o = Undef THEN <<"undefined">> ELSE Get(o)

\* a returned string, or a thrown TypeError
Ok(s) == [err |-> "none", html |-> s]
TypeError == [err |-> "TypeError", html |-> <<>>]

RECURSIVE Cat(_)
Cat(ss) == IF ss = <<>> THEN <<>> ELSE Head(ss) \o Cat(Tail(ss))

\* join that drops the separator
Join_NoSeparator(ss, sep) == Cat(ss)

\* Array.prototype.join
RECURSIVE Join(_, _)
Join(ss, sep) ==
    IF ss = <<>> THEN <<>>
    ELSE IF Len(ss) = 1 THEN ss[1]
    ELSE ss[1] \o sep \o Join(Tail(ss), sep)

NL == <<"\n">>
Ind(n) == [i \in 1..n |-> "    "]

\* s occurs in t as a contiguous run of tokens
Contains(t, s) ==
    \E i \in 0..(Len(t) - Len(s)) : \A j \in 1..Len(s) : t[i + j] = s[j]

Count(t, tok) == Cardinality({i \in 1..Len(t) : t[i] = tok})

----------------------------------------------------------------------------
(* Link Formatter *)

\* position of the first token `tok` of t at or after position i, 0 if none
RECURSIVE IndexFrom(_, _, _)
IndexFrom(t, tok, i) ==
    IF i > Len(t) THEN 0
    ELSE IF t[i] = tok THEN i
    ELSE IndexFrom(t, tok, i + 1)

\* the match of /\[([^\]]+)\]\(([^)]+)\)/ that starts at position i, if any:
\* [^\]]+ runs to the first "]", [^)]+ to the first ")", both non-empty
MatchAt(t, i) ==
    IF i > Len(t) \/ t[i] # "[" THEN Undef
    ELSE LET j == IndexFrom(t, "]", i + 1) IN
         IF j = 0 \/ j = i + 1 \/ j + 1 > Len(t) \/ t[j + 1] # "(" THEN Undef
         ELSE LET k == IndexFrom(t, ")", j + 2) IN
              IF k = 0 \/ k = j + 2 THEN Undef
              ELSE Some([label |-> SubSeq(t, i + 1, j - 1),
                         url |-> SubSeq(t, j + 2, k - 1),
                         end |-> k])

Anchor(label, url) == <<"<a href=\"">> \o url \o <<"\">">> \o label \o <<"</a>">>

\* the pattern without the g flag: only the first link is replaced
RECURSIVE ReplaceLinksFrom_FirstOnly(_, _)
ReplaceLinksFrom_FirstOnly(t, i) ==
    IF i > Len(t) THEN <<>>
    ELSE LET m == MatchAt(t, i) IN
         IF m = Undef THEN <<t[i]>> \o ReplaceLinksFrom_FirstOnly(t, i + 1)
         ELSE Anchor(Get(m).label, Get(m).url) \o SubSeq(t, Get(m).end + 1, Len(t))

\* String.prototype.replace with the global pattern: leftmost matches, left
\* to right, each replaced by '<a href="$2">$1</a>', never rescanned
RECURSIVE ReplaceLinksFrom(_, _)
ReplaceLinksFrom(t, i) ==
    IF i > Len(t) THEN <<>>
    ELSE LET m == MatchAt(t, i) IN
         IF m = Undef THEN <<t[i]>> \o ReplaceLinksFrom(t, i + 1)
         ELSE Anchor(Get(m).label, Get(m).url) \o ReplaceLinksFrom(t, Get(m).end + 1)

processMarkdownLinks(t) == ReplaceLinksFrom(t, 1)

----------------------------------------------------------------------------
(* Section Renderers *)

ContainerOpen == <<"<div class=\"content-section\">">>
ContainerClose == NL \o <<"</div>">>

\* <h2>title</h2> and <p>content</p> on their own lines, one indent deep
TitleLine(s) == NL \o Ind(1) \o <<"<h2>">> \o Interp(s.title) \o <<"</h2>">>

\* the content paragraph goes through the Link Formatter
ContentLine_Linked(s) ==
    NL \o Ind(1) \o <<"<p>">>
    \o (IF s.content = Undef THEN <<"undefined">> ELSE processMarkdownLinks(Get(s.content)))
    \o <<"</p>">>

ContentLine(s) == NL \o Ind(1) \o <<"<p>">> \o Interp(s.content) \o <<"</p>">>

ListItems(items) == [i \in 1..Len(items) |-> <<"<li>">> \o items[i] \o <<"</li>">>]

HighlightBox(hb) ==
    NL \o NL \o Ind(1) \o <<"<div class=\"highlight-box\">">>
    \o NL \o Ind(2) \o <<"<h3>">> \o Interp(hb.title) \o <<"</h3>">>
    \o NL \o Ind(2) \o <<"<ul>">>
    \o NL \o Ind(3) \o Join(ListItems(Get(hb.items)), NL \o Ind(3))
    \o NL \o Ind(2) \o <<"</ul>">>
    \o NL \o Ind(1) \o <<"</div>">>

StatItem(stat) ==
    <<"<div class=\"stat-item\">">>
    \o NL \o Ind(4) \o <<"<span class=\"stat-number\">">> \o Interp(stat.number) \o <<"</span>">>
    \o NL \o Ind(4) \o <<"<span class=\"stat-label\">">> \o Interp(stat.label) \o <<"</span>">>
    \o NL \o Ind(3) \o <<"</div>">>

StatsSection(st) ==
    NL \o NL \o Ind(1) \o <<"<div class=\"stats-section\">">>
    \o NL \o Ind(2) \o <<"<h3>">> \o Interp(st.title) \o <<"</h3>">>
    \o NL \o Ind(2) \o <<"<div class=\"stats-grid\">">>
    \o NL \o Ind(3)
    \o Join([i \in 1..Len(Get(st.items)) |-> StatItem(Get(st.items)[i])], NL \o Ind(3))
    \o NL \o Ind(2) \o <<"</div>">>
    \o NL \o Ind(1) \o <<"</div>">>

\* the two optional blocks are appended in the wrong order
generateMainAnnouncement_StatsFirst(s) ==
    IF \/ (s.highlight_box # Undef /\ Get(s.highlight_box).items = Undef)
       \/ (s.stats # Undef /\ Get(s.stats).items = Undef)
    THEN TypeError
    ELSE Ok(ContainerOpen \o TitleLine(s) \o ContentLine(s)
            \o (IF s.stats # Undef THEN StatsSection(Get(s.stats)) ELSE <<>>)
            \o (IF s.highlight_box # Undef THEN HighlightBox(Get(s.highlight_box)) ELSE <<>>)
            \o ContainerClose)

generateMainAnnouncement(s) ==
    IF \/ (s.highlight_box # Undef /\ Get(s.highlight_box).items = Undef)
       \/ (s.stats # Undef /\ Get(s.stats).items = Undef)
    THEN TypeError
    ELSE Ok(ContainerOpen \o TitleLine(s) \o ContentLine(s)
            \o (IF s.highlight_box # Undef THEN HighlightBox(Get(s.highlight_box)) ELSE <<>>)
            \o (IF s.stats # Undef THEN StatsSection(Get(s.stats)) ELSE <<>>)
            \o ContainerClose)

FeatureCard(card) ==
    <<"<div class=\"feature-card\">">>
    \o NL \o Ind(3) \o <<"<h4>">> \o Interp(card.title) \o <<"</h4>">>
    \o NL \o Ind(3) \o <<"<p>">> \o Interp(card.content) \o <<"</p>">>
    \o NL \o Ind(2) \o <<"</div>">>

Subsection(sub) ==
    NL \o NL \o Ind(1) \o <<"<h3>">> \o Interp(sub.title) \o <<"</h3>">>
    \o NL \o Ind(1) \o <<"<p>">> \o Interp(sub.content) \o <<"</p>">>
    \o NL \o NL \o Ind(1) \o <<"<div class=\"feature-grid\">">>
    \o NL \o Ind(2)
    \o Join([i \in 1..Len(Get(sub.feature_cards)) |-> FeatureCard(Get(sub.feature_cards)[i])],
            NL \o Ind(2))
    \o NL \o Ind(1) \o <<"</div>">>

generateTechnologyStack(s) ==
    IF \/ s.subsections = Undef
       \/ \E i \in 1..Len(Get(s.subsections)) : Get(s.subsections)[i].feature_cards = Undef
    THEN TypeError
    ELSE Ok(ContainerOpen \o TitleLine(s)
            \o Cat([i \in 1..Len(Get(s.subsections)) |-> Subsection(Get(s.subsections)[i])])
            \o ContainerClose)

generateContainerImages(s) ==
    IF s.code_block = Undef THEN TypeError
    ELSE Ok(ContainerOpen \o TitleLine(s) \o ContentLine(s)
            \o NL \o NL \o Ind(1) \o <<"<div class=\"code-block\">">>
            \o NL \o Ind(2)
            \o Join([i \in 1..Len(Get(s.code_block)) |->
                        <<"<p>">> \o Get(s.code_block)[i] \o <<"</p>">>], NL \o Ind(2))
            \o NL \o Ind(1) \o <<"</div>">>
            \o ContainerClose)

Phase(ph) ==
    NL \o NL \o Ind(1) \o <<"<h4>">> \o Interp(ph.title) \o <<"</h4>">>
    \o NL \o Ind(1) \o <<"<p>">> \o Interp(ph.content) \o <<"</p>">>

generateImplementation(s) ==
    IF s.phases = Undef THEN TypeError
    ELSE Ok(ContainerOpen \o TitleLine(s) \o ContentLine(s)
            \o Cat([i \in 1..Len(Get(s.phases)) |-> Phase(Get(s.phases)[i])])
            \o ContainerClose)

ContactLine(c) ==
    NL \o NL \o Ind(1) \o <<"<p><strong>Contact:</strong> ">> \o Interp(c.text)
    \o <<" <a href=\"mailto:">> \o Interp(c.email) \o <<"\">">> \o Interp(c.email)
    \o <<"</a>", "</p>">>

generateSupport(s) ==
    IF s.list_items = Undef THEN TypeError
    ELSE Ok(ContainerOpen \o TitleLine(s) \o ContentLine(s)
            \o NL \o NL \o Ind(1) \o <<"<ul>">>
            \o NL \o Ind(2) \o Join(ListItems(Get(s.list_items)), NL \o Ind(2))
            \o NL \o Ind(1) \o <<"</ul>">>
            \o (IF s.contact # Undef THEN ContactLine(Get(s.contact)) ELSE <<>>)
            \o ContainerClose)

CtaButton(b) ==
    <<"<a href=\"">> \o Interp(b.url) \o <<"\" class=\"cta-button\">">>
    \o Interp(b.text) \o <<"</a>">>

generateCTA(s) ==
    IF s.buttons = Undef THEN TypeError
    ELSE Ok(<<"<div class=\"cta-section\">">>
            \o NL \o Ind(1) \o <<"<h3>">> \o Interp(s.title) \o <<"</h3>">>
            \o ContentLine(s)
            \o NL \o Ind(1)
            \o Join([i \in 1..Len(Get(s.buttons)) |-> CtaButton(Get(s.buttons)[i])],
                    NL \o Ind(1))
            \o ContainerClose)

BlankButton(b) ==
    <<"<a href=\"">> \o Interp(b.url) \o <<"\" target=\"_blank\">">>
    \o Interp(b.text) \o <<"</a>">>

generateAurora(s) ==
    IF \/ s.content = Undef
       \/ s.involvement = Undef
       \/ Get(s.involvement).items = Undef
       \/ s.community = Undef
       \/ s.feedback = Undef
       \/ Get(s.feedback).buttons = Undef
    THEN TypeError
    ELSE Ok(<<"<!-- Aurora Section -->">>
            \o NL \o <<"<div class=\"aurora-section\">">>
            \o TitleLine(s)
            \o NL \o Ind(1) \o <<"<p>">> \o processMarkdownLinks(Get(s.content)) \o <<"</p>">>
            \o NL \o Ind(1)
            \o NL \o Ind(1) \o <<"<h3>">> \o Interp(Get(s.involvement).title) \o <<"</h3>">>
            \o NL \o Ind(1) \o <<"<ul>">>
            \o NL \o Ind(2) \o Join(ListItems(Get(Get(s.involvement).items)), NL \o Ind(2))
            \o NL \o Ind(1) \o <<"</ul>">>
            \o NL \o Ind(1)
            \o NL \o Ind(1) \o <<"<p>">> \o processMarkdownLinks(Get(s.community)) \o <<"</p>">>
            \o NL \o Ind(1)
            \o NL \o Ind(1) \o <<"<div class=\"aurora-cta\">">>
            \o NL \o Ind(2) \o <<"<p><strong>">> \o Interp(Get(s.feedback).text)
            \o <<"</strong></p>">>
            \o NL \o Ind(2)
            \o Join([i \in 1..Len(Get(Get(s.feedback).buttons)) |->
                        BlankButton(Get(Get(s.feedback).buttons)[i])], NL \o Ind(2))
            \o NL \o Ind(1) \o <<"</div>">>
            \o ContainerClose)

RecordingLink(l) ==
    <<"<li><strong>">> \o Interp(l.text) \o <<":</strong> ">>
    \o <<"<a href=\"">> \o Interp(l.url) \o <<"\" target=\"_blank\">">>
    \o Interp(l.title) \o <<"</a>", "</li>">>

ResourceLink(l) == <<"<li>">> \o BlankButton(l) \o <<"</li>">>

generateMLCapabilities(s) ==
    IF \/ (s.features # Undef /\ Get(s.features).items = Undef)
       \/ (s.resources # Undef /\ Get(s.resources).links = Undef)
    THEN TypeError
    ELSE Ok(ContainerOpen \o TitleLine(s) \o ContentLine(s)
            \o (IF s.recording_links # Undef
                THEN NL \o Ind(1) \o <<"<ul>">>
                     \o NL \o Ind(2)
                     \o Join([i \in 1..Len(Get(s.recording_links)) |->
                                 RecordingLink(Get(s.recording_links)[i])], NL \o Ind(2))
                     \o NL \o Ind(1) \o <<"</ul>">>
                ELSE <<>>)
            \o (IF s.features # Undef
                THEN NL \o Ind(1) \o <<"<p>">> \o Interp(Get(s.features).intro) \o <<"</p>">>
                     \o NL \o Ind(1) \o <<"<ul>">>
                     \o NL \o Ind(2)
                     \o Join(ListItems(Get(Get(s.features).items)), NL \o Ind(2))
                     \o NL \o Ind(1) \o <<"</ul>">>
                ELSE <<>>)
            \o (IF s.additional_content # Undef
                THEN Cat([i \in 1..Len(Get(s.additional_content)) |->
                             NL \o Ind(1) \o <<"<p>">> \o Get(s.additional_content)[i]
                             \o <<"</p>">>])
                ELSE <<>>)
            \o (IF s.resources # Undef
                THEN NL \o Ind(1) \o <<"<h3>">> \o Interp(Get(s.resources).title) \o <<"</h3>">>
                     \o NL \o Ind(1) \o <<"<p>">> \o Interp(Get(s.resources).intro) \o <<"</p>">>
                     \o NL \o Ind(1) \o <<"<ul>">>
                     \o NL \o Ind(2)
                     \o Join([i \in 1..Len(Get(Get(s.resources).links)) |->
                                 ResourceLink(Get(Get(s.resources).links)[i])], NL \o Ind(2))
                     \o NL \o Ind(1) \o <<"</ul>">>
                ELSE <<>>)
            \o ContainerClose)

generateGenericSection(s) ==
    Ok(ContainerOpen \o TitleLine(s) \o ContentLine(s) \o ContainerClose)

----------------------------------------------------------------------------
(* Section Dispatcher: the switch of generateContentSections *)

\* the switch without the case 'aurora'
RendererOf_NoAurora(s) ==
    CASE s.type = Some("main_announcement") -> "generateMainAnnouncement"
      [] s.type = Some("technology_stack") -> "generateTechnologyStack"
      [] s.type = Some("container_images") -> "generateContainerImages"
      [] s.type = Some("implementation") -> "generateImplementation"
      [] s.type = Some("support") -> "generateSupport"
      [] s.type = Some("cta") -> "generateCTA"
      [] s.type = Some("ml_capabilities") -> "generateMLCapabilities"
      [] OTHER -> "generateGenericSection"

RendererOf(s) ==
    CASE s.type = Some("main_announcement") -> "generateMainAnnouncement"
      [] s.type = Some("technology_stack") -> "generateTechnologyStack"
      [] s.type = Some("container_images") -> "generateContainerImages"
      [] s.type = Some("implementation") -> "generateImplementation"
      [] s.type = Some("support") -> "generateSupport"
      [] s.type = Some("cta") -> "generateCTA"
      [] s.type = Some("aurora") -> "generateAurora"
      [] s.type = Some("ml_capabilities") -> "generateMLCapabilities"
      [] OTHER -> "generateGenericSection"

Invoke(name, s) ==
    CASE name = "generateMainAnnouncement" -> generateMainAnnouncement(s)
      [] name = "generateTechnologyStack" -> generateTechnologyStack(s)
      [] name = "generateContainerImages" -> generateContainerImages(s)
      [] name = "generateImplementation" -> generateImplementation(s)
      [] name = "generateSupport" -> generateSupport(s)
      [] name = "generateCTA" -> generateCTA(s)
      [] name = "generateAurora" -> generateAurora(s)
      [] name = "generateMLCapabilities" -> generateMLCapabilities(s)
      [] OTHER -> generateGenericSection(s)

DispatchSection(s) == Invoke(RendererOf(s), s)

----------------------------------------------------------------------------
(* generateContentSections and the Mode Variant Controller *)

ReadFullLink ==
    NL \o ContainerOpen
    \o NL \o Ind(1) \o <<"<p style=\"text-align: center;\">">>
    \o NL \o Ind(2)
    \o <<"<a href=\"", "https://simardeep1792.github.io/aurora-newsletter/2025-06-gc-artifacts.html",
         "\">", "Read the full version of the newsletter", "</a>">>
    \o NL \o Ind(1) \o <<"</p>">>
    \o ContainerClose

\* the track is not cut in email mode
SectionsToProcess_NoSlice(email, secs) == secs

\* sections.slice(0, 1) in email mode
SectionsToProcess(email, secs) ==
    IF email THEN SubSeq(secs, 1, IF Len(secs) < 1 THEN Len(secs) ELSE 1) ELSE secs

\* the link is appended only when a section was rendered
generateContentSections_LinkIfAny(email, secs) ==
    LET todo == SectionsToProcess(email, secs)
        frags == [i \in 1..Len(todo) |-> DispatchSection(todo[i])]
    IN  IF \E i \in 1..Len(frags) : frags[i].err # "none" THEN TypeError
        ELSE Ok(Join([i \in 1..Len(frags) |-> frags[i].html], NL \o NL)
                \o (IF email /\ todo # <<>> THEN ReadFullLink ELSE <<>>))

generateContentSections(email, secs) ==
    LET todo == SectionsToProcess(email, secs)
        frags == [i \in 1..Len(todo) |-> DispatchSection(todo[i])]
    IN  IF \E i \in 1..Len(frags) : frags[i].err # "none" THEN TypeError
        ELSE Ok(Join([i \in 1..Len(frags) |-> frags[i].html], NL \o NL)
                \o (IF email THEN ReadFullLink ELSE <<>>))

----------------------------------------------------------------------------
(* Sections of the content documents *)

NoSection ==
    [type |-> Undef, title |-> Undef, content |-> Undef, highlight_box |-> Undef,
     stats |-> Undef, subsections |-> Undef, code_block |-> Undef, phases |-> Undef,
     list_items |-> Undef, contact |-> Undef, buttons |-> Undef, involvement |-> Undef,
     community |-> Undef, feedback |-> Undef, recording_links |-> Undef,
     features |-> Undef, additional_content |-> Undef, resources |-> Undef]

DeclaredTypes ==
    {"main_announcement", "technology_stack", "container_images", "implementation",
     "support", "cta", "ml_capabilities", "aurora"}

LinkText == <<"[", "l", "]", "(", "u", ")">>

TitleValues == {Undef, Some(<<"T">>)}
ContentValues == {Undef, Some(<<"c">>), Some(LinkText)}

Button == [text |-> Some(<<"go">>), url |-> Some(<<"https://x">>)]

HighlightValues ==
    {Undef,
     Some([title |-> Some(<<"hb">>), items |-> Some(<< <<"i1">>, <<"i2">> >>)]),
     Some([title |-> Some(<<"hb">>), items |-> Undef])}
StatsValues ==
    {Undef,
     Some([title |-> Some(<<"st">>),
           items |-> Some(<<[number |-> Some(<<"9">>), label |-> Some(<<"n">>)]>>)])}
SubsectionValues ==
    {Undef, Some(<<>>),
     Some(<<[title |-> Some(<<"sub">>), content |-> Some(<<"sc">>),
             feature_cards |-> Some(<<[title |-> Some(<<"ft">>),
                                       content |-> Some(<<"fc">>)]>>)]>>),
     Some(<<[title |-> Some(<<"sub">>), content |-> Some(<<"sc">>),
             feature_cards |-> Undef]>>)}
CodeBlockValues == {Undef, Some(<< <<"k1">> >>), Some(<< <<"k1">>, <<"k2">> >>)}
PhaseValues ==
    {Undef, Some(<<[title |-> Some(<<"p1">>), content |-> Some(<<"pc">>)]>>)}
ListItemValues == {Undef, Some(<< <<"i1">> >>)}
ContactValues == {Undef, Some([text |-> Some(<<"ask">>), email |-> Some(<<"a@b">>)])}
ButtonValues == {Undef, Some(<<>>), Some(<<Button>>)}
InvolvementValues ==
    {Undef, Some([title |-> Some(<<"inv">>), items |-> Some(<< <<"i1">> >>)])}
CommunityValues == {Undef, Some(<<"m">>), Some(LinkText)}
FeedbackValues ==
    {Undef, Some([text |-> Some(<<"fb">>), buttons |-> Some(<<Button>>)])}
RecordingValues ==
    {Undef, Some(<<[text |-> Some(<<"rt">>), title |-> Some(<<"rn">>),
                    url |-> Some(<<"https://r">>)]>>)}
FeatureValues ==
    {Undef, Some([intro |-> Some(<<"fi">>), items |-> Some(<< <<"i1">> >>)])}
AdditionalValues == {Undef, Some(<< <<"a1">> >>)}
ResourceValues ==
    {Undef, Some([title |-> Some(<<"rs">>), intro |-> Some(<<"ri">>),
                  links |-> Some(<<Button>>)])}

Base(type) ==
    {[NoSection EXCEPT !.type = type, !.title = t, !.content = c] :
        t \in TitleValues, c \in ContentValues}

AllSections ==
    UNION {
      {[b EXCEPT !.highlight_box = h, !.stats = st] :
          b \in Base(Some("main_announcement")), h \in HighlightValues, st \in StatsValues},
      {[b EXCEPT !.subsections = x] :
          b \in Base(Some("technology_stack")), x \in SubsectionValues},
      {[b EXCEPT !.code_block = x] :
          b \in Base(Some("container_images")), x \in CodeBlockValues},
      {[b EXCEPT !.phases = x] : b \in Base(Some("implementation")), x \in PhaseValues},
      {[b EXCEPT !.list_items = x, !.contact = y] :
          b \in Base(Some("support")), x \in ListItemValues, y \in ContactValues},
      {[b EXCEPT !.buttons = x] : b \in Base(Some("cta")), x \in ButtonValues},
      {[b EXCEPT !.involvement = x, !.community = y, !.feedback = z] :
          b \in Base(Some("aurora")), x \in InvolvementValues, y \in CommunityValues,
          z \in FeedbackValues},
      {[b EXCEPT !.recording_links = w, !.features = x, !.additional_content = y,
                 !.resources = z] :
          b \in Base(Some("ml_capabilities")), w \in RecordingValues, x \in FeatureValues,
          y \in AdditionalValues, z \in ResourceValues},
      Base(Undef), Base(Some("custom")), Base(Some("CTA")),
      {[b EXCEPT !.buttons = Some(<<Button>>)] : b \in Base(Some("newsletter"))}
    }

\* what each declared type's renderer requires (the table of section types)
HasRequired(s) ==
    /\ s.title # Undef
    /\ s.type = Some("technology_stack") \/ s.content # Undef
    /\ s.type = Some("technology_stack") =>
          /\ s.subsections # Undef
          /\ \A i \in 1..Len(Get(s.subsections)) :
                Get(s.subsections)[i].feature_cards # Undef
    /\ s.type = Some("container_images") => s.code_block # Undef
    /\ s.type = Some("implementation") => s.phases # Undef
    /\ s.type = Some("support") => s.list_items # Undef
    /\ s.type = Some("cta") => s.buttons # Undef
    /\ s.type = Some("aurora") =>
          /\ s.involvement # Undef /\ Get(s.involvement).items # Undef
          /\ s.community # Undef
          /\ s.feedback # Undef /\ Get(s.feedback).buttons # Undef
    /\ s.type = Some("main_announcement") =>
          /\ s.highlight_box # Undef => Get(s.highlight_box).items # Undef
          /\ s.stats # Undef => Get(s.stats).items # Undef
    /\ s.type = Some("ml_capabilities") =>
          /\ s.features # Undef => Get(s.features).items # Undef
          /\ s.resources # Undef => Get(s.resources).links # Undef

----------------------------------------------------------------------------
(* Specification of the dispatcher: one section, dispatched once *)

Idle ==
    /\ pc = "idle" /\ contentFile = Undef /\ templateFile = Undef /\ data = Undef
    /\ template = <<>> /\ scalarResult = <<>> /\ newsletter = Undef /\ output = <<>>

InitDispatch ==
    /\ isEmail = FALSE
    /\ section \in AllSections
    /\ fragment = Undef
    /\ renderer = "none"
    /\ sections = <<>> /\ html = Undef
    /\ text = <<>> /\ linked = Undef /\ pieces = <<>>
    /\ Idle

Dispatch ==
    /\ fragment = Undef
    /\ renderer' = RendererOf(section)
    /\ fragment' = Some(DispatchSection(section))
    /\ UNCHANGED <<isEmail, section, renderVars, linkVars, buildVars>>

NextDispatch == Dispatch

SpecDispatch == InitDispatch /\ [][NextDispatch]_vars

----------------------------------------------------------------------------
(* Specification of generateContentSections: one track, rendered once *)

GenericSection == [NoSection EXCEPT !.type = Some("custom"), !.title = Some(<<"T">>),
                                    !.content = Some(<<"c">>)]
CtaSection == [NoSection EXCEPT !.type = Some("cta"), !.title = Some(<<"T">>),
                                !.content = Some(<<"c">>), !.buttons = Some(<<Button>>)]
CtaNoButtons == [CtaSection EXCEPT !.buttons = Undef]
AuroraSection ==
    [NoSection EXCEPT !.type = Some("aurora"), !.title = Some(<<"T">>),
                      !.content = Some(LinkText),
                      !.involvement = Some([title |-> Some(<<"inv">>),
                                            items |-> Some(<< <<"i1">> >>)]),
                      !.community = Some(<<"m">>),
                      !.feedback = Some([text |-> Some(<<"fb">>),
                                         buttons |-> Some(<<Button>>)])]
UntitledSection == [NoSection EXCEPT !.content = Some(<<"c">>)]

TrackSections == {GenericSection, CtaSection, CtaNoButtons, AuroraSection, UntitledSection}

RECURSIVE SeqsUpTo(_, _)
SeqsUpTo(S, n) ==
    IF n = 0 THEN {<<>>}
    ELSE LET shorter == SeqsUpTo(S, n - 1)
         IN  shorter \cup {Append(q, x) : q \in {r \in shorter : Len(r) = n - 1}, x \in S}

Tracks == SeqsUpTo(TrackSections, MaxTrack)

InitRender ==
    /\ isEmail \in BOOLEAN
    /\ sections \in Tracks
    /\ html = Undef
    /\ section = NoSection /\ fragment = Undef /\ renderer = "none"
    /\ text = <<>> /\ linked = Undef /\ pieces = <<>>
    /\ Idle

GenerateContentSections ==
    /\ html = Undef
    /\ html' = Some(generateContentSections(isEmail, sections))
    /\ UNCHANGED <<isEmail, sections, dispatchVars, linkVars, buildVars>>

NextRender == GenerateContentSections

SpecRender == InitRender /\ [][NextRender]_vars

----------------------------------------------------------------------------
(* Specification of the Link Formatter: one text, converted once.  The text  *)
(* is written as a sequence of pieces, a piece being one character of plain *)
(* text or one link [label](url).                                           *)

PlainChars == {"[", "]", "(", ")", "a"}
Labels == {<<"l">>, <<"[", "l">>, <<"$", "1">>}
Urls == {<<"u">>, <<"(", "u">>, <<"u", "]">>}

Pieces ==
    {[kind |-> "plain", label |-> <<c>>, url |-> <<>>] : c \in PlainChars}
    \cup {[kind |-> "link", label |-> l, url |-> u] : l \in Labels, u \in Urls}

\* the source text of a piece
Source(p) ==
    IF p.kind = "plain" THEN p.label
    ELSE <<"[">> \o p.label \o <<"]", "(">> \o p.url \o <<")">>

Flatten(ps) == Cat([i \in 1..Len(ps) |-> Source(ps[i])])

InitLinks ==
    /\ pieces \in SeqsUpTo(Pieces, MaxPieces)
    /\ text = Flatten(pieces)
    /\ linked = Undef
    /\ isEmail = FALSE
    /\ section = NoSection /\ fragment = Undef /\ renderer = "none"
    /\ sections = <<>> /\ html = Undef
    /\ Idle

ProcessMarkdownLinks ==
    /\ linked = Undef
    /\ linked' = Some(processMarkdownLinks(text))
    /\ UNCHANGED <<isEmail, text, pieces, dispatchVars, renderVars, buildVars>>

NextLinks == ProcessMarkdownLinks

SpecLinks == InitLinks /\ [][NextLinks]_vars

----------------------------------------------------------------------------
(* Document Assembler: replacePlaceholders *)

ScalarKeys == <<"TITLE", "SUBTITLE", "TAGLINE", "HERO_TITLE", "HERO_DESCRIPTION">>

\* the placeholder token `{{KEY}}`
Token(key) ==
    CASE key = "TITLE" -> "{{TITLE}}"
      [] key = "SUBTITLE" -> "{{SUBTITLE}}"
      [] key = "TAGLINE" -> "{{TAGLINE}}"
      [] key = "HERO_TITLE" -> "{{HERO_TITLE}}"
      [] key = "HERO_DESCRIPTION" -> "{{HERO_DESCRIPTION}}"
      [] key = "ENGLISH_CONTENT" -> "{{ENGLISH_CONTENT}}"
      [] key = "FRENCH_CONTENT" -> "{{FRENCH_CONTENT}}"

\* const replacements = {...}: the value of each scalar key
Replacement(d, key) ==
    CASE key = "TITLE" -> Get(d.meta).title
      [] key = "SUBTITLE" -> Get(d.header).sub_title
      [] key = "TAGLINE" -> Get(d.header).subtitle
      [] key = "HERO_TITLE" -> Get(d.hero).title
      [] key = "HERO_DESCRIPTION" -> Get(d.hero).description

\* String.prototype.replace expands the replacement string: $$ is "$", $& the
\* matched text, $` the text before the match, $' the text after it; any
\* other "$" stands for itself (the patterns have no capture groups)
RECURSIVE Expand(_, _, _, _)
Expand(repl, matched, before, after) ==
    IF repl = <<>> THEN <<>>
    ELSE IF repl[1] = "$" /\ Len(repl) >= 2 /\ repl[2] \in {"$", "&", "`", "'"}
    THEN (CASE repl[2] = "$" -> <<"$">>
            [] repl[2] = "&" -> matched
            [] repl[2] = "`" -> before
            [] repl[2] = "'" -> after)
         \o Expand(SubSeq(repl, 3, Len(repl)), matched, before, after)
    ELSE <<repl[1]>> \o Expand(Tail(repl), matched, before, after)

\* result.replace(new RegExp(`{{KEY}}`, 'g'), value): every occurrence
RECURSIVE ReplaceAllFrom(_, _, _, _)
ReplaceAllFrom(t, tok, repl, i) ==
    IF i > Len(t) THEN <<>>
    ELSE (IF t[i] = tok
          THEN Expand(repl, <<tok>>, SubSeq(t, 1, i - 1), SubSeq(t, i + 1, Len(t)))
          ELSE <<t[i]>>)
         \o ReplaceAllFrom(t, tok, repl, i + 1)

ReplaceAll(t, tok, repl) == ReplaceAllFrom(t, tok, repl, 1)

\* result.replace('{{KEY}}', value): the first occurrence only
ReplaceFirst(t, tok, repl) ==
    LET i == IndexFrom(t, tok, 1)
    IN  IF i = 0 THEN t
        ELSE SubSeq(t, 1, i - 1)
             \o Expand(repl, <<tok>>, SubSeq(t, 1, i - 1), SubSeq(t, i + 1, Len(t)))
             \o SubSeq(t, i + 1, Len(t))

\* the forEach over Object.entries(replacements), keys k..5 in order
RECURSIVE ScalarPass(_, _, _)
ScalarPass(t, d, k) ==
    IF k > Len(ScalarKeys) THEN t
    ELSE ScalarPass(ReplaceAll(t, Token(ScalarKeys[k]), Interp(Replacement(d, ScalarKeys[k]))),
                    d, k + 1)

FrenchFallback ==
    ContainerOpen \o <<"<p>", "French content coming soon...", "</p>", "</div>">>

HasSections(track) == track # Undef /\ Get(track).sections # Undef

\* if (data.english && data.english.sections) {...}
EnglishPass(t, email, d) ==
    IF HasSections(d.english)
    THEN LET r == generateContentSections(email, Get(Get(d.english).sections))
         IN  IF r.err # "none" THEN TypeError
             ELSE Ok(ReplaceFirst(t, Token("ENGLISH_CONTENT"), r.html))
    ELSE Ok(t)

\* the else branch is missing: an absent French track leaves the token
FrenchPass_NoFallback(t, email, d) ==
    IF HasSections(d.french)
    THEN LET r == generateContentSections(email, Get(Get(d.french).sections))
         IN  IF r.err # "none" THEN TypeError
             ELSE Ok(ReplaceFirst(t, Token("FRENCH_CONTENT"), r.html))
    ELSE Ok(t)

\* if (data.french && data.french.sections) {...} else {...}
FrenchPass(t, email, d) ==
    IF HasSections(d.french)
    THEN LET r == generateContentSections(email, Get(Get(d.french).sections))
         IN  IF r.err # "none" THEN TypeError
             ELSE Ok(ReplaceFirst(t, Token("FRENCH_CONTENT"), r.html))
    ELSE Ok(ReplaceFirst(t, Token("FRENCH_CONTENT"), FrenchFallback))

\* reading data.meta.title, data.header.sub_title ... of a missing object throws
ScalarsThrow(d) == d.meta = Undef \/ d.header = Undef \/ d.hero = Undef

replacePlaceholders(email, t, d) ==
    IF ScalarsThrow(d) THEN TypeError
    ELSE LET en == EnglishPass(ScalarPass(t, d, 1), email, d)
         IN  IF en.err # "none" THEN TypeError
             ELSE FrenchPass(en.html, email, d)

----------------------------------------------------------------------------
(* Specification of build(): one run of the builder *)

\* juice(html): the style rules are moved onto the elements
inlineCss(doc) == [doc EXCEPT !.inlined = TRUE]

BaseDoc ==
    [meta |-> Some([title |-> Some(<<"X">>), edition |-> Some(<<"2025-06">>)]),
     header |-> Some([sub_title |-> Some(<<"S">>), subtitle |-> Some(<<"G">>)]),
     hero |-> Some([title |-> Some(<<"H">>), description |-> Some(<<"D">>)]),
     english |-> Undef,
     french |-> Undef]

DocTitles ==
    {Undef, Some(<<"X">>), Some(<<"$", "&">>), Some(<<"$", "$", "5">>),
     Some(<<"{{FRENCH_CONTENT}}">>)}

TokenSection == [GenericSection EXCEPT !.content = Some(<<"{{FRENCH_CONTENT}}">>)]
FrenchSection == [GenericSection EXCEPT !.title = Some(<<"F">>), !.content = Some(<<"f">>)]

EnglishTracks ==
    {Undef, Some([sections |-> Undef]), Some([sections |-> Some(<<>>)]),
     Some([sections |-> Some(<<GenericSection, CtaSection>>)]),
     Some([sections |-> Some(<<CtaNoButtons>>)]),
     Some([sections |-> Some(<<TokenSection>>)])}

FrenchTracks ==
    {Undef, Some([sections |-> Undef]), Some([sections |-> Some(<<>>)]),
     Some([sections |-> Some(<<FrenchSection>>)])}

Docs ==
    {[BaseDoc EXCEPT !.meta = Some([title |-> t, edition |-> Some(<<"2025-06">>)]),
                     !.english = en, !.french = fr] :
        t \in DocTitles, en \in EnglishTracks, fr \in FrenchTracks}
    \cup {[BaseDoc EXCEPT !.meta = Undef], [BaseDoc EXCEPT !.header = Undef],
          [BaseDoc EXCEPT !.hero = Undef]}

TemplateTokens ==
    {"{{TITLE}}", "{{SUBTITLE}}", "{{TAGLINE}}", "{{HERO_TITLE}}", "{{HERO_DESCRIPTION}}",
     "{{ENGLISH_CONTENT}}", "{{FRENCH_CONTENT}}", "<body>"}

Templates == SeqsUpTo(TemplateTokens, MaxTemplate)

Init ==
    /\ isEmail \in BOOLEAN
    /\ contentFile \in {Undef} \cup {Some(d) : d \in Docs}
    /\ templateFile \in {Undef} \cup {Some(t) : t \in Templates}
    /\ pc = "loadContent"
    /\ data = Undef /\ template = <<>> /\ scalarResult = <<>>
    /\ newsletter = Undef /\ output = <<>>
    /\ section = NoSection /\ fragment = Undef /\ renderer = "none"
    /\ sections = <<>> /\ html = Undef
    /\ text = <<>> /\ linked = Undef /\ pieces = <<>>

others == <<isEmail, contentFile, templateFile, dispatchVars, renderVars, linkVars>>

\* loadContent: a file that cannot be read or parsed ends the process
LoadContent ==
    /\ pc = "loadContent"
    /\ IF contentFile = Undef
       THEN pc' = "exit1" /\ data' = data
       ELSE pc' = "loadTemplate" /\ data' = contentFile
    /\ UNCHANGED <<template, scalarResult, newsletter, output, others>>

LoadTemplate ==
    /\ pc = "loadTemplate"
    /\ IF templateFile = Undef
       THEN pc' = "exit1" /\ template' = template
       ELSE pc' = "logEdition" /\ template' = Get(templateFile)
    /\ UNCHANGED <<data, scalarResult, newsletter, output, others>>

\* console.log(`Loaded content: ${data.meta.edition}`)
LogEdition ==
    /\ pc = "logEdition"
    /\ pc' = IF Get(data).meta = Undef THEN "failed_logEdition" ELSE "assemble"
    /\ UNCHANGED <<data, template, scalarResult, newsletter, output, others>>

ReplacePlaceholders ==
    /\ pc = "assemble"
    /\ LET r == replacePlaceholders(isEmail, template, Get(data))
       IN  /\ scalarResult' = IF ScalarsThrow(Get(data)) THEN scalarResult
                              ELSE ScalarPass(template, Get(data), 1)
           /\ IF r.err # "none"
              THEN pc' = "failed_assemble" /\ newsletter' = newsletter
              ELSE /\ newsletter' = Some([html |-> r.html, inlined |-> FALSE])
                   /\ pc' = IF isEmail THEN "inline" ELSE "write"
    /\ UNCHANGED <<data, template, output, others>>

InlineCss ==
    /\ pc = "inline"
    /\ newsletter' = Some(inlineCss(Get(newsletter)))
    /\ pc' = "write"
    /\ UNCHANGED <<data, template, scalarResult, output, others>>

\* juice throws
InlineCssThrows ==
    /\ pc = "inline"
    /\ pc' = "failed_inline"
    /\ UNCHANGED <<data, template, scalarResult, newsletter, output, others>>

\* fs.writeFileSync(finalOutputPath, newsletter)
WriteOutput ==
    /\ pc = "write"
    /\ output' = Append(output, Get(newsletter))
    /\ pc' = "summary"
    /\ UNCHANGED <<data, template, scalarResult, newsletter, others>>

\* the write fails after the artifact is on disk
WriteOutputThrows_AfterWriting ==
    /\ pc = "write"
    /\ output' = Append(output, Get(newsletter))
    /\ pc' = "failed_write"
    /\ UNCHANGED <<data, template, scalarResult, newsletter, others>>

\* fs.writeFileSync cannot open the output path
WriteOutputThrows ==
    /\ pc = "write"
    /\ pc' = "failed_write"
    /\ UNCHANGED <<data, template, scalarResult, newsletter, output, others>>

\* the build summary: only console.log and optional chaining
Summary ==
    /\ pc = "summary"
    /\ pc' = "done"
    /\ UNCHANGED <<data, template, scalarResult, newsletter, output, others>>

Next ==
    \/ LoadContent
    \/ LoadTemplate
    \/ LogEdition
    \/ ReplacePlaceholders
    \/ InlineCss
    \/ InlineCssThrows
    \/ WriteOutput
    \/ WriteOutputThrows
    \/ Summary

Spec == Init /\ [][Next]_vars

----------------------------------------------------------------------------
(* Properties *)

Rendered(i) == DispatchSection(sections[i])
LinkLabel == "Read the full version of the newsletter"

\* C1: in email mode a track with at least one section renders as the first
\* section's fragment followed by the fixed "read the full version" link, and
\* no fragment of a later section occurs in the output.
C1_AbbreviatedFirstOnly ==
    (isEmail /\ html # Undef /\ Len(sections) >= 1 /\ Rendered(1).err = "none") =>
        /\ Get(html).err = "none"
        /\ Get(html).html = Rendered(1).html \o ReadFullLink
        /\ Count(Get(html).html, LinkLabel) = 1
        /\ \A i \in 2..Len(sections) :
              (Rendered(i).err = "none" /\ Rendered(i).html # Rendered(1).html) =>
                  ~Contains(Get(html).html, Rendered(i).html)

C1_Witness ==
    /\ isEmail /\ html # Undef /\ Len(sections) = 3
    /\ sections[1] = GenericSection /\ sections[2] = CtaSection
    /\ sections[3] = AuroraSection
    /\ Get(html).err = "none"

\* C2 as stated: in email mode the empty track renders as the empty string.
C2_EmptyTrackEmptyString ==
    (isEmail /\ html # Undef /\ sections = <<>>) => Get(html) = Ok(<<>>)

\* C2 as amended: in email mode the empty track renders no section fragment;
\* the result is exactly the fixed "read the full version" link fragment.
C2_EmptyTrackLinkOnly ==
    (isEmail /\ html # Undef /\ sections = <<>>) =>
        /\ Get(html) = Ok(ReadFullLink)
        /\ Count(Get(html).html, LinkLabel) = 1
        /\ Count(Get(html).html, "<h2>") = 0

C2_Witness == isEmail /\ html # Undef /\ sections = <<>> /\ Get(html).err = "none"

\* where the i-th fragment starts when fragments are two tokens apart
RECURSIVE StartOf(_)
StartOf(i) == IF i = 1 THEN 0 ELSE StartOf(i - 1) + Len(Rendered(i - 1).html) + 2

\* C3: in web mode the output is the fragments of all sections in track order,
\* exactly one blank line ("\n\n") between consecutive fragments, nothing
\* before the first, nothing after the last, no "read the full version" link.
C3_FullAllInOrder ==
    (~isEmail /\ html # Undef /\ \A i \in 1..Len(sections) : Rendered(i).err = "none") =>
        LET out == Get(html).html
            n == Len(sections)
        IN  /\ Get(html).err = "none"
            /\ Len(out) = IF n = 0 THEN 0 ELSE StartOf(n) + Len(Rendered(n).html)
            /\ \A i \in 1..n :
                  SubSeq(out, StartOf(i) + 1, StartOf(i) + Len(Rendered(i).html))
                      = Rendered(i).html
            /\ \A i \in 2..n : out[StartOf(i) - 1] = "\n" /\ out[StartOf(i)] = "\n"
            /\ Count(out, LinkLabel) = 0

C3_Witness ==
    /\ ~isEmail /\ html # Undef /\ Len(sections) = 3
    /\ sections[1] = GenericSection /\ sections[2] = CtaSection
    /\ sections[3] = AuroraSection
    /\ Get(html).err = "none"

FrenchAbsent(d) == ~HasSections(d.french)
Assembled == pc \in {"inline", "write", "summary", "done"}
EnglishRenders(email, d) ==
    HasSections(d.english) =>
        generateContentSections(email, Get(Get(d.english).sections)).err = "none"

\* C4: when the French track is absent (no `french`, or no `french.sections`)
\* the assembled document carries the "French content coming soon..." fragment
\* in place of a {{FRENCH_CONTENT}} token, in both modes, and the absence never
\* makes replacePlaceholders throw; when the track is present the fallback is
\* not inserted.
C4_FrenchFallback ==
    /\ (Assembled /\ FrenchAbsent(Get(data))) =>
          LET out == Get(newsletter).html
              before == EnglishPass(scalarResult, isEmail, Get(data)).html
          IN  /\ Count(out, "French content coming soon...")
                    = IF Count(before, "{{FRENCH_CONTENT}}") > 0 THEN 1 ELSE 0
              /\ Count(before, "{{FRENCH_CONTENT}}") > 0 =>
                    /\ Count(out, "{{FRENCH_CONTENT}}")
                          = Count(before, "{{FRENCH_CONTENT}}") - 1
                    /\ Contains(out, FrenchFallback)
              /\ Count(template, "{{FRENCH_CONTENT}}") > 0 =>
                    Count(before, "{{FRENCH_CONTENT}}") > 0
    /\ (Assembled /\ ~FrenchAbsent(Get(data))) =>
          Count(Get(newsletter).html, "French content coming soon...") = 0
    /\ (pc = "failed_assemble" /\ FrenchAbsent(Get(data))) =>
          \/ ScalarsThrow(Get(data))
          \/ ~EnglishRenders(isEmail, Get(data))

C4_Witness ==
    /\ Assembled /\ isEmail
    /\ Get(data).french = Some([sections |-> Undef])
    /\ template = <<"{{ENGLISH_CONTENT}}", "{{FRENCH_CONTENT}}">>
    /\ Contains(Get(newsletter).html, FrenchFallback)

OwnRenderer ==
    [t \in DeclaredTypes |->
        CASE t = "main_announcement" -> "generateMainAnnouncement"
          [] t = "technology_stack" -> "generateTechnologyStack"
          [] t = "container_images" -> "generateContainerImages"
          [] t = "implementation" -> "generateImplementation"
          [] t = "support" -> "generateSupport"
          [] t = "cta" -> "generateCTA"
          [] t = "ml_capabilities" -> "generateMLCapabilities"
          [] t = "aurora" -> "generateAurora"]

Declared(s) == s.type # Undef /\ Get(s.type) \in DeclaredTypes

\* C5: a section whose type is not one of the eight declared types (or is
\* missing) is rendered by the generic renderer, which returns the container
\* with the title heading and the content paragraph and never fails; a section
\* of a declared type is rendered by that type's own renderer.
C5_DispatchTotal ==
    fragment # Undef =>
        /\ ~Declared(section) =>
              /\ renderer = "generateGenericSection"
              /\ Get(fragment).err = "none"
              /\ Get(fragment).html =
                    <<"<div class=\"content-section\">", "\n", "    ", "<h2>">>
                    \o Interp(section.title)
                    \o <<"</h2>", "\n", "    ", "<p>">>
                    \o Interp(section.content)
                    \o <<"</p>", "\n", "</div>">>
        /\ Declared(section) =>
              /\ renderer = OwnRenderer[Get(section.type)]
              /\ renderer # "generateGenericSection"
              /\ Get(fragment) = Invoke(OwnRenderer[Get(section.type)], section)

C5_Witness ==
    /\ fragment # Undef
    /\ section.type = Some("newsletter") /\ section.buttons # Undef
    /\ renderer = "generateGenericSection"

\* C6 as stated: for a section of a declared type that carries its required
\* fields, the fragment contains the title and the content verbatim.
C6_TitleAndContentVerbatim ==
    (fragment # Undef /\ Declared(section) /\ HasRequired(section)) =>
        /\ Get(fragment).err = "none"
        /\ Contains(Get(fragment).html, Get(section.title))
        /\ section.content # Undef => Contains(Get(fragment).html, Get(section.content))

\* C6 as amended: for a section of a declared type that carries its required
\* fields, the fragment contains the title verbatim; it contains the content
\* verbatim for every type but technology_stack, whose renderer does not
\* render a section-level content, and aurora, whose content appears with
\* every [label](url) replaced by an anchor.
C6_TitleVerbatimContentByType ==
    (fragment # Undef /\ Declared(section) /\ HasRequired(section)) =>
        /\ Get(fragment).err = "none"
        /\ Contains(Get(fragment).html, Get(section.title))
        /\ (section.content # Undef
            /\ Get(section.type) \notin {"technology_stack", "aurora"}) =>
              Contains(Get(fragment).html, <<"<p>">> \o Get(section.content) \o <<"</p>">>)
        /\ (Get(section.type) = "aurora" /\ section.content = Some(<<"c">>)) =>
              Contains(Get(fragment).html, <<"<p>", "c", "</p>">>)
        /\ (Get(section.type) = "aurora" /\ section.content = Some(LinkText)) =>
              /\ Contains(Get(fragment).html,
                          <<"<p>", "<a href=\"", "u", "\">", "l", "</a>", "</p>">>)
              /\ ~Contains(Get(fragment).html, LinkText)
        /\ (Get(section.type) = "technology_stack" /\ section.content # Undef) =>
              ~Contains(Get(fragment).html, Get(section.content))

C6_Witness ==
    /\ fragment # Undef /\ section.type = Some("aurora") /\ HasRequired(section)
    /\ section.content = Some(LinkText)
    /\ Get(fragment).err = "none"

\* C7: after the scalar substitutions the text is the template with every
\* scalar token replaced by the literal document value, and no scalar token
\* remains, for every value string.
C7_ScalarsLiteral ==
    (Assembled /\ \A k \in 1..Len(ScalarKeys) : Replacement(Get(data), ScalarKeys[k]) # Undef) =>
        /\ scalarResult =
              Cat([i \in 1..Len(template) |->
                    IF \E k \in 1..Len(ScalarKeys) : template[i] = Token(ScalarKeys[k])
                    THEN Get(Replacement(Get(data),
                             ScalarKeys[CHOOSE k \in 1..Len(ScalarKeys) :
                                            template[i] = Token(ScalarKeys[k])]))
                    ELSE <<template[i]>>])
        /\ \A k \in 1..Len(ScalarKeys) : Count(scalarResult, Token(ScalarKeys[k])) = 0

\* C8: rendering a section that lacks a field its renderer requires ends in a
\* failure; no fragment, and no text "undefined", is returned for it.
C8_MissingFieldFails ==
    (fragment # Undef /\ ~HasRequired(section)) =>
        /\ Get(fragment).err # "none"
        /\ Count(Get(fragment).html, "undefined") = 0

Failed == pc \in {"exit1", "failed_logEdition", "failed_assemble", "failed_inline",
                  "failed_write"}

\* C9: a run of build writes at most one artifact; an artifact is written only
\* once the whole document is assembled (and, in email mode, inlined), and the
\* run then completes; a run that ends in an error has written nothing.
C9_WriteLastOrNothing ==
    /\ Len(output) <= 1
    /\ Failed => output = <<>>
    /\ pc = "done" => Len(output) = 1
    /\ output # <<>> =>
          /\ pc \in {"summary", "done"}
          /\ output[1].inlined = isEmail
          /\ output[1].html = replacePlaceholders(isEmail, template, Get(data)).html
          /\ replacePlaceholders(isEmail, template, Get(data)).err = "none"

C9_Witness == pc = "done" /\ isEmail /\ Len(output) = 1 /\ output[1].inlined

\* no text of the shape [label](url): label without "]", url without ")",
\* both non-empty
NoOccurrence(t) ==
    ~\E i, j, k \in 1..Len(t) :
        /\ i + 1 < j /\ j + 2 < k
        /\ t[i] = "[" /\ t[j] = "]" /\ t[j + 1] = "(" /\ t[k] = ")"
        /\ \A m \in (i + 1)..(j - 1) : t[m] # "]"
        /\ \A m \in (j + 2)..(k - 1) : t[m] # ")"

PlainPieces(ps) == {i \in 1..Len(ps) : ps[i].kind = "plain"}
LinkPieces(ps) == {i \in 1..Len(ps) : ps[i].kind = "link"}

\* C10: a text made of plain characters and N links [label](url) comes back
\* with every link replaced by <a href="url">label</a>, label and url verbatim
\* and in order, and every plain character unchanged (the plain text opening
\* no bracket of its own); a text without any [label](url) comes back unchanged.
C10_LinksReplaced ==
    linked # Undef =>
        /\ NoOccurrence(text) => Get(linked) = text
        /\ (\A i \in PlainPieces(pieces) : pieces[i].label # <<"[">>) =>
              /\ Get(linked) =
                    Cat([i \in 1..Len(pieces) |->
                          IF pieces[i].kind = "plain" THEN pieces[i].label
                          ELSE <<"<a href=\"">> \o pieces[i].url \o <<"\">">>
                               \o pieces[i].label \o <<"</a>">>])
              /\ Count(Get(linked), "<a href=\"") = Cardinality(LinkPieces(pieces))

C10_Witness ==
    /\ linked # Undef /\ Len(pieces) = 3
    /\ pieces[1] = [kind |-> "link", label |-> <<"$", "1">>, url |-> <<"(", "u">>]
    /\ pieces[2] = [kind |-> "plain", label |-> <<")">>, url |-> <<>>]
    /\ pieces[3] = [kind |-> "link", label |-> <<"[", "l">>, url |-> <<"u", "]">>]
    /\ Count(Get(linked), "<a href=\"") = 2

HighlightMarker == "<div class=\"highlight-box\">"
StatsMarker == "<div class=\"stats-section\">"

\* C11: the fragment of a main_announcement section holds the highlight-box
\* block exactly when highlight_box is present and the stats-section block
\* exactly when stats is present; with neither it is the container with the
\* title and the content only; with both the highlight box comes first.
C11_OptionalBlocks ==
    (fragment # Undef /\ section.type = Some("main_announcement")
     /\ Get(fragment).err = "none") =>
        LET out == Get(fragment).html IN
        /\ Count(out, HighlightMarker) = IF section.highlight_box # Undef THEN 1 ELSE 0
        /\ Count(out, StatsMarker) = IF section.stats # Undef THEN 1 ELSE 0
        /\ section.highlight_box = Undef => Count(out, "<ul>") = 0
        /\ section.stats = Undef => Count(out, "<div class=\"stats-grid\">") = 0
        /\ (section.highlight_box = Undef /\ section.stats = Undef) =>
              out = <<"<div class=\"content-section\">", "\n", "    ", "<h2>">>
                    \o Interp(section.title)
                    \o <<"</h2>", "\n", "    ", "<p>">>
                    \o Interp(section.content)
                    \o <<"</p>", "\n", "</div>">>
        /\ (section.highlight_box # Undef /\ section.stats # Undef) =>
              /\ IndexFrom(out, HighlightMarker, 1) < IndexFrom(out, StatsMarker, 1)
              /\ IndexFrom(out, "</ul>", 1) < IndexFrom(out, StatsMarker, 1)

C11_Witness ==
    /\ fragment # Undef /\ section.type = Some("main_announcement")
    /\ section.highlight_box # Undef /\ section.stats # Undef
    /\ section.title # Undef /\ section.content # Undef
    /\ Get(fragment).err = "none"
    /\ Count(Get(fragment).html, HighlightMarker) = 1
    /\ Count(Get(fragment).html, StatsMarker) = 1

\* what stands at position i of the template once every token of the template
\* is replaced on its own: a scalar token by its value, the first
\* {{ENGLISH_CONTENT}} by the rendered English track, the first
\* {{FRENCH_CONTENT}} by the rendered French track or the fallback
StandsAt(t, email, d, i) ==
    IF \E k \in 1..Len(ScalarKeys) : t[i] = Token(ScalarKeys[k])
    THEN Interp(Replacement(d, ScalarKeys[CHOOSE k \in 1..Len(ScalarKeys) :
                                              t[i] = Token(ScalarKeys[k])]))
    ELSE IF t[i] = "{{ENGLISH_CONTENT}}" /\ i = IndexFrom(t, "{{ENGLISH_CONTENT}}", 1)
            /\ HasSections(d.english)
    THEN generateContentSections(email, Get(Get(d.english).sections)).html
    ELSE IF t[i] = "{{FRENCH_CONTENT}}" /\ i = IndexFrom(t, "{{FRENCH_CONTENT}}", 1)
    THEN (IF HasSections(d.french)
          THEN generateContentSections(email, Get(Get(d.french).sections)).html
          ELSE FrenchFallback)
    ELSE <<t[i]>>

\* C12: the assembled document is the template with the rendered English
\* track at its {{ENGLISH_CONTENT}} token, the rendered French track (or the
\* fallback) at its {{FRENCH_CONTENT}} token and each scalar value at its
\* token; inserted text is not rewritten by a later substitution, also when it
\* holds a placeholder token.  (Stated for values without "$", whose expansion
\* is the subject of C7.)
C12_TracksAtTheirTokens ==
    (Assembled /\ Count(Interp(Get(Get(data).meta).title), "$") = 0) =>
        Get(newsletter).html =
            Cat([i \in 1..Len(template) |-> StandsAt(template, isEmail, Get(data), i)])

====
